---- MODULE Spec2Model ----
(***************************************************************************)
(* Model of package stats (src/stats.go): the Client interface, the        *)
(* prefixing decorator (prefixClient) with its multiEnder, the HookClient   *)
(* test double, the NoOpEnd handle and the four nil-tolerant package        *)
(* functions.                                                               *)
(*                                                                          *)
(* A call is observed through the events it produces, in order: every       *)
(* method invocation on a Client value ("call", with the nesting level of   *)
(* the receiver: 0 is the client handed to the package function, 1 the      *)
(* client it wraps, ...), every invocation of a hook function ("hook") and  *)
(* every End invoked on a timer handle the backend or a hook produced       *)
(* ("end").  float64 values are only passed through, so small integers      *)
(* stand for them.  A panic (a nil dereference, a failing End of a backend   *)
(* timer) ends the call it happens in and every call around it.             *)
(***************************************************************************)
EXTENDS Integers, Sequences, FiniteSets, TLC

\* ---------------------------------------------------------------- bounds
\* MaxPrefixes: prefix strings allocated in all; MaxDepth: decorators nested;
\* MaxOverwrites: elements the caller overwrites; MaxFailing: timers whose End
\* fails in one End.
MaxPrefixes == 4
MaxDepth == 2
MaxOverwrites == 1
MaxFailing == 1

\* ---------------------------------------------------------------- inputs
Keys == {"requests"}
\* The (value, tags) pairs the caller bumps with.
Samples == {<<3, <<>>>>, <<42, <<"region:us", "az:b">>>>}
TagSets == {s[2] : s \in Samples}
PrefixStrs == {"svc.", "env.prod."}
Scratch == "tmp."

\* The prefix lists the caller builds: n prefixes, alternating between the two
\* prefix strings, starting with either.
PrefixList(first, n) ==
  [i \in 1..n |-> IF i % 2 = 1 THEN first ELSE CHOOSE x \in PrefixStrs : x # first]

RECURSIVE SubsetsUpTo(_, _)
SubsetsUpTo(S, n) ==
  IF n = 0 THEN {{}}
  ELSE LET r == SubsetsUpTo(S, n - 1)
       IN r \cup {x \cup {i} : x \in r, i \in S}

\* ----------------------------------------------------------------- state
VARIABLES
  client,     \* the (optional) stats.Client the application holds
  heap,       \* backing arrays of the prefix slices the caller allocated
  supplied,   \* per backing array: its contents when PrefixClient was called
  dirty,      \* the <<array, index>> cells the caller has overwritten
  held,       \* the handle the last BumpTime returned to the caller
  last,       \* the last operation and its arguments
  trace,      \* the events the last operation produced, in order
  panicked    \* whether the last operation ended in a panic

vars == <<client, heap, supplied, dirty, held, last, trace, panicked>>

\* ---------------------------------------------------------------- events
CallEv(lvl, op, args) == [kind |-> "call", lvl |-> lvl, op |-> op, args |-> args]
RetEv(lvl, h) == [kind |-> "ret", lvl |-> lvl, op |-> "BumpTime", args |-> <<h>>]
HookEv(lvl, op, args) == [kind |-> "hook", lvl |-> lvl, op |-> op, args |-> args]
EndEv(id) == [kind |-> "end", lvl |-> 0, op |-> "End", args |-> <<id>>]

\* ---------------------------------------------------------------- values
NilClient == [type |-> "nil"]
Backend == [type |-> "backend"]
HookClient(avg, sum, hist, time) ==
  [type |-> "HookClient", BumpAvgHook |-> avg, BumpSumHook |-> sum,
   BumpHistogramHook |-> hist, BumpTimeHook |-> time]
HookClients ==
  {HookClient(a, s, h, t) : a \in BOOLEAN, s \in BOOLEAN, h \in BOOLEAN, t \in BOOLEAN}

\* A slice header: the backing array and the length.
Slice(arr, len) == [arr |-> arr, len |-> len]
Elems(s) == SubSeq(heap[s.arr], 1, s.len)

\* PrefixClient stores the slice header it is given: the backing array stays
\* shared with the caller.
PrefixClient(prefixes, c) ==
  [type |-> "prefixClient", Prefixes |-> prefixes, Client |-> c]

NilEnder == [type |-> "nil"]
NoOpEnd == [type |-> "noOpEnd"]
Timer(id) == [type |-> "timer", id |-> id]
multiEnder(hs) == [type |-> "multiEnder", hs |-> hs]

\* What a call returns: its events and whether it panicked.
Out(ev, p) == [ev |-> ev, panicked |-> p]
\* What a BumpTime returns: also the handle and the number of timers started
\* so far in the operation (the next timer is number n + 1).
Res(ev, p, h, n) == [ev |-> ev, panicked |-> p, h |-> h, n |-> n]

RECURSIVE Client_BumpAvg(_, _, _, _, _)
RECURSIVE Client_BumpSum(_, _, _, _, _)
RECURSIVE Client_BumpHistogram(_, _, _, _, _)
RECURSIVE Client_BumpTime(_, _, _, _, _)
RECURSIVE Ender_End(_, _)

\* ------------------------------------------------- a recording backend
\* An implementation of Client outside the package: it records the calls it
\* receives (the "call" events) and starts one timer per BumpTime.
backend_BumpAvg(lvl, key, val, tags) == Out(<<>>, FALSE)
backend_BumpSum(lvl, key, val, tags) == Out(<<>>, FALSE)
backend_BumpHistogram(lvl, key, val, tags) == Out(<<>>, FALSE)
backend_BumpTime(lvl, key, tags, n) == Res(<<>>, FALSE, Timer(n + 1), n + 1)

\* A timer the backend (or a hook) started: its End is the backend's own, and
\* panics for the timers in F.
timer_End(h, F) == Out(<<EndEv(h.id)>>, h.id \in F)

\* ---------------------------------------------------------- prefixClient
\* for _, prefix := range p.Prefixes, from index i on; ev are the events so far.
RECURSIVE prefixClient_BumpAvg_range(_, _, _, _, _, _, _)
prefixClient_BumpAvg_range(p, i, lvl, key, val, tags, ev) ==
  IF i > Len(Elems(p.Prefixes)) THEN Out(ev, FALSE)
  ELSE LET r == Client_BumpAvg(p.Client, lvl + 1, Elems(p.Prefixes)[i] \o key, val, tags)
       IN IF r.panicked THEN Out(ev \o r.ev, TRUE)
          ELSE prefixClient_BumpAvg_range(p, i + 1, lvl, key, val, tags, ev \o r.ev)

\* Mutant: the range starting at the second prefix.
prefixClient_BumpAvg_fromSecond(p, lvl, key, val, tags) ==
  prefixClient_BumpAvg_range(p, 2, lvl, key, val, tags, <<>>)

prefixClient_BumpAvg(p, lvl, key, val, tags) ==
  prefixClient_BumpAvg_range(p, 1, lvl, key, val, tags, <<>>)

RECURSIVE prefixClient_BumpSum_range(_, _, _, _, _, _, _)
prefixClient_BumpSum_range(p, i, lvl, key, val, tags, ev) ==
  IF i > Len(Elems(p.Prefixes)) THEN Out(ev, FALSE)
  ELSE LET r == Client_BumpSum(p.Client, lvl + 1, Elems(p.Prefixes)[i] \o key, val, tags)
       IN IF r.panicked THEN Out(ev \o r.ev, TRUE)
          ELSE prefixClient_BumpSum_range(p, i + 1, lvl, key, val, tags, ev \o r.ev)

\* Mutant: the copy of BumpAvg left calling the wrapped BumpAvg.
prefixClient_BumpSum_callsAvg(p, lvl, key, val, tags) ==
  prefixClient_BumpAvg_range(p, 1, lvl, key, val, tags, <<>>)

prefixClient_BumpSum(p, lvl, key, val, tags) ==
  prefixClient_BumpSum_range(p, 1, lvl, key, val, tags, <<>>)

RECURSIVE prefixClient_BumpHistogram_range(_, _, _, _, _, _, _)
prefixClient_BumpHistogram_range(p, i, lvl, key, val, tags, ev) ==
  IF i > Len(Elems(p.Prefixes)) THEN Out(ev, FALSE)
  ELSE LET r == Client_BumpHistogram(p.Client, lvl + 1,
                                     Elems(p.Prefixes)[i] \o key, val, tags)
       IN IF r.panicked THEN Out(ev \o r.ev, TRUE)
          ELSE prefixClient_BumpHistogram_range(p, i + 1, lvl, key, val, tags,
                                                ev \o r.ev)

\* Mutant: key+prefix instead of prefix+key.
RECURSIVE prefixClient_BumpHistogram_suffix(_, _, _, _, _, _, _)
prefixClient_BumpHistogram_suffix(p, i, lvl, key, val, tags, ev) ==
  IF i > Len(Elems(p.Prefixes)) THEN Out(ev, FALSE)
  ELSE LET r == Client_BumpHistogram(p.Client, lvl + 1,
                                     key \o Elems(p.Prefixes)[i], val, tags)
       IN prefixClient_BumpHistogram_suffix(p, i + 1, lvl, key, val, tags, ev \o r.ev)

prefixClient_BumpHistogram_keyFirst(p, lvl, key, val, tags) ==
  prefixClient_BumpHistogram_suffix(p, 1, lvl, key, val, tags, <<>>)

prefixClient_BumpHistogram(p, lvl, key, val, tags) ==
  prefixClient_BumpHistogram_range(p, 1, lvl, key, val, tags, <<>>)

\* m is the multiEnder built so far (var m multiEnder starts empty), n the
\* number of timers started so far.
RECURSIVE prefixClient_BumpTime_range(_, _, _, _, _, _, _, _)
prefixClient_BumpTime_range(p, i, lvl, key, tags, m, ev, n) ==
  IF i > Len(Elems(p.Prefixes)) THEN Res(ev, FALSE, multiEnder(m), n)
  ELSE LET r == Client_BumpTime(p.Client, lvl + 1, Elems(p.Prefixes)[i] \o key, tags, n)
       IN IF r.panicked THEN Res(ev \o r.ev, TRUE, NilEnder, r.n)
          ELSE prefixClient_BumpTime_range(p, i + 1, lvl, key, tags,
                                           Append(m, r.h), ev \o r.ev, r.n)

\* Mutant: the handles collected newest first.
RECURSIVE prefixClient_BumpTime_prepend(_, _, _, _, _, _, _, _)
prefixClient_BumpTime_prepend(p, i, lvl, key, tags, m, ev, n) ==
  IF i > Len(Elems(p.Prefixes)) THEN Res(ev, FALSE, multiEnder(m), n)
  ELSE LET r == Client_BumpTime(p.Client, lvl + 1, Elems(p.Prefixes)[i] \o key, tags, n)
       IN prefixClient_BumpTime_prepend(p, i + 1, lvl, key, tags,
                                        <<r.h>> \o m, ev \o r.ev, r.n)

prefixClient_BumpTime_newestFirst(p, lvl, key, tags, n) ==
  prefixClient_BumpTime_prepend(p, 1, lvl, key, tags, <<>>, <<>>, n)

\* Mutant: no handle at all (nil) when nothing was collected.
prefixClient_BumpTime_nilWhenEmpty(p, lvl, key, tags, n) ==
  IF Len(Elems(p.Prefixes)) = 0 THEN Res(<<>>, FALSE, NilEnder, n)
  ELSE prefixClient_BumpTime_range(p, 1, lvl, key, tags, <<>>, <<>>, n)

prefixClient_BumpTime(p, lvl, key, tags, n) ==
  prefixClient_BumpTime_range(p, 1, lvl, key, tags, <<>>, <<>>, n)

\* ------------------------------------------------------------ multiEnder
\* for _, e := range m, from index i on: a panic of e.End() ends the loop.
RECURSIVE multiEnder_End_range(_, _, _, _)
multiEnder_End_range(m, i, F, ev) ==
  IF i > Len(m) THEN Out(ev, FALSE)
  ELSE LET r == Ender_End(m[i], F)
       IN IF r.panicked THEN Out(ev \o r.ev, TRUE)
          ELSE multiEnder_End_range(m, i + 1, F, ev \o r.ev)

\* Mutant: the first handle skipped.
multiEnder_End_skipFirst(m, F) == multiEnder_End_range(m, 2, F, <<>>)

\* Mutant: a panic of e.End() recovered, the loop going on.
RECURSIVE multiEnder_End_recover(_, _, _, _)
multiEnder_End_recover(m, i, F, ev) ==
  IF i > Len(m) THEN Out(ev, FALSE)
  ELSE multiEnder_End_recover(m, i + 1, F, ev \o Ender_End(m[i], F).ev)

multiEnder_End_attemptAll(m, F) == multiEnder_End_recover(m, 1, F, <<>>)

multiEnder_End(m, F) == multiEnder_End_range(m, 1, F, <<>>)

\* ------------------------------------------------------------ HookClient
\* A hook that is set is a function of the test: it records its arguments
\* (the "hook" events); the BumpTime hook starts a timer of its own.
HookClient_BumpAvg(c, lvl, key, val, tags) ==
  IF c.BumpAvgHook THEN Out(<<HookEv(lvl, "BumpAvg", <<key, val, tags>>)>>, FALSE)
  ELSE Out(<<>>, FALSE)

\* Mutant: the copy of BumpAvg left calling BumpAvgHook (a nil hook panics).
HookClient_BumpSum_callsAvgHook(c, lvl, key, val, tags) ==
  IF c.BumpSumHook
  THEN IF c.BumpAvgHook THEN Out(<<HookEv(lvl, "BumpAvg", <<key, val, tags>>)>>, FALSE)
       ELSE Out(<<>>, TRUE)
  ELSE Out(<<>>, FALSE)

HookClient_BumpSum(c, lvl, key, val, tags) ==
  IF c.BumpSumHook THEN Out(<<HookEv(lvl, "BumpSum", <<key, val, tags>>)>>, FALSE)
  ELSE Out(<<>>, FALSE)

HookClient_BumpHistogram(c, lvl, key, val, tags) ==
  IF c.BumpHistogramHook
  THEN Out(<<HookEv(lvl, "BumpHistogram", <<key, val, tags>>)>>, FALSE)
  ELSE Out(<<>>, FALSE)

HookClient_BumpTime(c, lvl, key, tags, n) ==
  IF c.BumpTimeHook
  THEN Res(<<HookEv(lvl, "BumpTime", <<key, tags>>)>>, FALSE, Timer(n + 1), n + 1)
  ELSE Res(<<>>, FALSE, NoOpEnd, n)

\* --------------------------------------------------------------- noOpEnd
noOpEnd_End(F) == Out(<<>>, FALSE)

\* ------------------------------------------- interface method dispatch
\* A method call on an interface value: the "call" event, then the method of
\* the dynamic type; on a nil interface it is a nil dereference (a panic).
Client_BumpAvg(c, lvl, key, val, tags) ==
  LET r == CASE c.type = "prefixClient" -> prefixClient_BumpAvg(c, lvl, key, val, tags)
             [] c.type = "HookClient" -> HookClient_BumpAvg(c, lvl, key, val, tags)
             [] c.type = "backend" -> backend_BumpAvg(lvl, key, val, tags)
             [] c.type = "nil" -> Out(<<>>, TRUE)
  IN IF c.type = "nil" THEN r
     ELSE Out(<<CallEv(lvl, "BumpAvg", <<key, val, tags>>)>> \o r.ev, r.panicked)

Client_BumpSum(c, lvl, key, val, tags) ==
  LET r == CASE c.type = "prefixClient" -> prefixClient_BumpSum(c, lvl, key, val, tags)
             [] c.type = "HookClient" -> HookClient_BumpSum(c, lvl, key, val, tags)
             [] c.type = "backend" -> backend_BumpSum(lvl, key, val, tags)
             [] c.type = "nil" -> Out(<<>>, TRUE)
  IN IF c.type = "nil" THEN r
     ELSE Out(<<CallEv(lvl, "BumpSum", <<key, val, tags>>)>> \o r.ev, r.panicked)

Client_BumpHistogram(c, lvl, key, val, tags) ==
  LET r == CASE c.type = "prefixClient" ->
                  prefixClient_BumpHistogram(c, lvl, key, val, tags)
             [] c.type = "HookClient" -> HookClient_BumpHistogram(c, lvl, key, val, tags)
             [] c.type = "backend" -> backend_BumpHistogram(lvl, key, val, tags)
             [] c.type = "nil" -> Out(<<>>, TRUE)
  IN IF c.type = "nil" THEN r
     ELSE Out(<<CallEv(lvl, "BumpHistogram", <<key, val, tags>>)>> \o r.ev, r.panicked)

Client_BumpTime(c, lvl, key, tags, n) ==
  LET r == CASE c.type = "prefixClient" -> prefixClient_BumpTime(c, lvl, key, tags, n)
             [] c.type = "HookClient" -> HookClient_BumpTime(c, lvl, key, tags, n)
             [] c.type = "backend" -> backend_BumpTime(lvl, key, tags, n)
             [] c.type = "nil" -> Res(<<>>, TRUE, NilEnder, n)
  IN IF c.type = "nil" THEN r
     ELSE IF r.panicked
     THEN Res(<<CallEv(lvl, "BumpTime", <<key, tags>>)>> \o r.ev, TRUE, NilEnder, r.n)
     ELSE Res(<<CallEv(lvl, "BumpTime", <<key, tags>>)>> \o r.ev \o <<RetEv(lvl, r.h)>>,
              FALSE, r.h, r.n)

Ender_End(h, F) ==
  CASE h.type = "multiEnder" -> multiEnder_End(h.hs, F)
    [] h.type = "noOpEnd" -> noOpEnd_End(F)
    [] h.type = "timer" -> timer_End(h, F)
    [] h.type = "nil" -> Out(<<>>, TRUE)

\* ------------------------------------------- nil-tolerant package functions
BumpAvg(c, key, val, tags) ==
  IF c # NilClient THEN Client_BumpAvg(c, 0, key, val, tags) ELSE Out(<<>>, FALSE)

\* Mutant: the copy of BumpAvg left calling c.BumpAvg.
BumpSum_callsAvg(c, key, val, tags) ==
  IF c # NilClient THEN Client_BumpAvg(c, 0, key, val, tags) ELSE Out(<<>>, FALSE)

BumpSum(c, key, val, tags) ==
  IF c # NilClient THEN Client_BumpSum(c, 0, key, val, tags) ELSE Out(<<>>, FALSE)

\* Mutant: the nil check left out.
BumpHistogram_noNilCheck(c, key, val, tags) == Client_BumpHistogram(c, 0, key, val, tags)

BumpHistogram(c, key, val, tags) ==
  IF c # NilClient THEN Client_BumpHistogram(c, 0, key, val, tags) ELSE Out(<<>>, FALSE)

BumpTime(c, key, tags) ==
  IF c # NilClient THEN Client_BumpTime(c, 0, key, tags, 0)
  ELSE Res(<<>>, FALSE, NoOpEnd, 0)

\* ---------------------------------------------------------------- helpers
RECURSIVE Depth(_)
Depth(c) == IF c.type = "prefixClient" THEN 1 + Depth(c.Client) ELSE 0

RECURSIVE TimerIds(_)
TimerIds(h) ==
  CASE h.type = "timer" -> {h.id}
    [] h.type = "multiEnder" -> UNION {TimerIds(h.hs[i]) : i \in 1..Len(h.hs)}
    [] OTHER -> {}

RECURSIVE SumLen(_, _)
SumLen(h, i) == IF i > Len(h) THEN 0 ELSE Len(h[i]) + SumLen(h, i + 1)

\* The prefix strings allocated so far.
Cells == SumLen(heap, 1)

\* --------------------------------------------------------------- actions
InitCommon ==
  /\ heap = <<>>
  /\ supplied = <<>>
  /\ dirty = {}
  /\ held = NilEnder
  /\ last = [op |-> "none", args |-> <<>>]
  /\ trace = <<>>
  /\ panicked = FALSE

Init == client = Backend /\ InitCommon

InitHelpers == client \in ({NilClient, Backend} \cup HookClients) /\ InitCommon

\* The caller allocates a prefix slice, starting with one of the prefixes in
\* firsts, and wraps its client with it.
NewPrefixClient(firsts) ==
  \E n \in 0..(MaxPrefixes - Cells), first \in firsts :
    LET P == PrefixList(first, n)
    IN /\ Depth(client) < MaxDepth
       /\ heap' = Append(heap, P)
       /\ supplied' = Append(supplied, P)
       /\ client' = PrefixClient(Slice(Len(heap) + 1, Len(P)), client)
       /\ last' = [op |-> "PrefixClient", args |-> <<P>>]
       /\ trace' = <<>>
       /\ panicked' = FALSE
       /\ UNCHANGED <<dirty, held>>

\* The caller overwrites an element of a slice it passed to PrefixClient.
CallerOverwrite ==
  \E a \in DOMAIN heap :
    \E i \in DOMAIN heap[a] :
      /\ Cardinality(dirty) < MaxOverwrites
      /\ <<a, i>> \notin dirty
      /\ heap' = [heap EXCEPT ![a][i] = Scratch]
      /\ dirty' = dirty \cup {<<a, i>>}
      /\ last' = [op |-> "overwrite", args |-> <<a, i>>]
      /\ trace' = <<>>
      /\ panicked' = FALSE
      /\ UNCHANGED <<client, supplied, held>>

CallBumpAvg ==
  \E key \in Keys, s \in Samples :
    LET r == BumpAvg(client, key, s[1], s[2])
    IN /\ trace' = r.ev
       /\ panicked' = r.panicked
       /\ last' = [op |-> "BumpAvg", args |-> <<key, s[1], s[2]>>]
       /\ UNCHANGED <<client, heap, supplied, dirty, held>>

CallBumpSum ==
  \E key \in Keys, s \in Samples :
    LET r == BumpSum(client, key, s[1], s[2])
    IN /\ trace' = r.ev
       /\ panicked' = r.panicked
       /\ last' = [op |-> "BumpSum", args |-> <<key, s[1], s[2]>>]
       /\ UNCHANGED <<client, heap, supplied, dirty, held>>

CallBumpHistogram ==
  \E key \in Keys, s \in Samples :
    LET r == BumpHistogram(client, key, s[1], s[2])
    IN /\ trace' = r.ev
       /\ panicked' = r.panicked
       /\ last' = [op |-> "BumpHistogram", args |-> <<key, s[1], s[2]>>]
       /\ UNCHANGED <<client, heap, supplied, dirty, held>>

CallBumpTime ==
  \E key \in Keys, tags \in TagSets :
    LET r == BumpTime(client, key, tags)
    IN /\ trace' = r.ev
       /\ panicked' = r.panicked
       /\ held' = r.h
       /\ last' = [op |-> "BumpTime", args |-> <<key, tags>>]
       /\ UNCHANGED <<client, heap, supplied, dirty>>

\* The caller calls End on the handle it holds; the End of the timers in F
\* panics.
CallEnd ==
  \E F \in SubsetsUpTo(TimerIds(held), MaxFailing) :
    LET r == Ender_End(held, F)
    IN /\ held # NilEnder
       /\ trace' = r.ev
       /\ panicked' = r.panicked
       /\ last' = [op |-> "End", args |-> <<F>>]
       /\ UNCHANGED <<client, heap, supplied, dirty, held>>

Next ==
  \/ NewPrefixClient(PrefixStrs)
  \/ CallBumpAvg
  \/ CallBumpSum
  \/ CallBumpHistogram
  \/ CallBumpTime
  \/ CallEnd

NextAlias ==
  \/ NewPrefixClient({"svc."})
  \/ CallerOverwrite
  \/ CallBumpAvg
  \/ CallBumpSum
  \/ CallBumpHistogram
  \/ CallBumpTime

NextHelpers ==
  \/ CallBumpAvg
  \/ CallBumpSum
  \/ CallBumpHistogram
  \/ CallBumpTime
  \/ CallEnd

\* Decorators over a backend, timers and End.
Spec == Init /\ [][Next]_vars

\* Decorators over a backend whose prefix slices the caller goes on writing to.
SpecAlias == Init /\ [][NextAlias]_vars

\* The package functions on an absent client, a backend or a HookClient.
SpecHelpers == InitHelpers /\ [][NextHelpers]_vars

\* ------------------------------------------------------------ observation
BumpOps == {"BumpAvg", "BumpSum", "BumpHistogram"}
AllOps == BumpOps \cup {"BumpTime"}

\* The method calls the client at nesting level l received in the last operation.
CallsAt(l) == SelectSeq(trace, LAMBDA e : e.kind = "call" /\ e.lvl = l)
HookCalls == SelectSeq(trace, LAMBDA e : e.kind = "hook")
Ends == SelectSeq(trace, LAMBDA e : e.kind = "end")

\* The prefix list of the decorator the application holds, as it is now.
P == Elems(client.Prefixes)
\* The arguments of the last operation with the key replaced.
WithKey(k) == [last.args EXCEPT ![1] = k]
\* The held handle is a multiEnder of timers the backend started.
HoldsTimers ==
  /\ held.type = "multiEnder"
  /\ \A i \in 1..Len(held.hs) : held.hs[i].type = "timer"

\* C1: one BumpAvg, BumpSum or BumpHistogram on PrefixClient(P, backend), P not
\* empty, makes exactly Len(P) calls on the wrapped client, all to the
\* same-named operation, with keys P[1]+k, ..., P[n]+k in that order and the
\* value and the tags (their order too) as given.
C1_FanOut ==
  (client.type = "prefixClient" /\ last.op \in BumpOps /\ Len(P) >= 1) =>
    /\ ~panicked
    /\ CallsAt(1) = [i \in 1..Len(P) |-> CallEv(1, last.op, WithKey(P[i] \o last.args[1]))]

C1_Witness ==
  /\ client.type = "prefixClient"
  /\ client.Client = Backend
  /\ last.op = "BumpSum"
  /\ P = <<"svc.", "env.prod.", "svc.">>
  /\ last.args = <<"requests", 42, <<"region:us", "az:b">>>>
  /\ Len(trace) = 4

\* C2: BumpTime on the decorator calls the wrapped BumpTime once per prefix, in
\* list order, with key P[i]+k and the tags as given, all before it returns;
\* the handle it returns holds the handles those calls returned, in the order
\* they were started (the i-th timer started is the i-th held), and an End on
\* it (none failing) ends them first to last.
C2_BumpTime ==
  /\ (client.type = "prefixClient" /\ last.op = "BumpTime") =>
       /\ ~panicked
       /\ CallsAt(1) = [i \in 1..Len(P) |-> CallEv(1, "BumpTime", WithKey(P[i] \o last.args[1]))]
       /\ held.type = "multiEnder"
       /\ held.hs = [i \in 1..Len(P) |->
                       SelectSeq(trace, LAMBDA e : e.kind = "ret" /\ e.lvl = 1)[i].args[1]]
       /\ client.Client = Backend => held.hs = [i \in 1..Len(P) |-> Timer(i)]
  /\ (last.op = "End" /\ last.args[1] = {} /\ HoldsTimers) =>
       /\ Len(trace) = Len(held.hs)
       /\ \A i \in 1..Len(held.hs) : trace[i] = EndEv(i)

C2_Witness ==
  /\ client.type = "prefixClient"
  /\ client.Client = Backend
  /\ last.op = "End"
  /\ last.args[1] = {}
  /\ held = multiEnder(<<Timer(1), Timer(2), Timer(3)>>)
  /\ trace = <<EndEv(1), EndEv(2), EndEv(3)>>

\* C3: one End on a multiEnder holding N handles, none of whose End fails,
\* invokes End on each held handle exactly once, in the order they are held,
\* and nothing else.
C3_EndAll ==
  (last.op = "End" /\ HoldsTimers /\ last.args[1] \cap TimerIds(held) = {}) =>
    /\ ~panicked
    /\ trace = [i \in 1..Len(held.hs) |-> EndEv(held.hs[i].id)]

C3_Witness ==
  /\ last.op = "End"
  /\ HoldsTimers
  /\ Len(held.hs) = 4
  /\ last.args[1] = {}
  /\ Len(trace) = 4

\* C7: with an empty prefix list the three bump operations of the decorator
\* make no call on the wrapped client; BumpTime makes none either and returns
\* a handle that is not nil, a multiEnder holding no handle, whose End does
\* nothing and does not panic.
C7_EmptyPrefixList ==
  /\ (client.type = "prefixClient" /\ last.op \in AllOps /\ Len(P) = 0) =>
       /\ ~panicked
       /\ trace = IF last.op = "BumpTime"
                  THEN <<CallEv(0, last.op, last.args), RetEv(0, held)>>
                  ELSE <<CallEv(0, last.op, last.args)>>
       /\ last.op = "BumpTime" => held # NilEnder /\ held = multiEnder(<<>>)
  /\ (last.op = "End" /\ held = multiEnder(<<>>)) => trace = <<>> /\ ~panicked

C7_Witness ==
  /\ client.type = "prefixClient"
  /\ Len(P) = 0
  /\ last.op = "End"
  /\ held = multiEnder(<<>>)

\* The timers of the held handle whose End fails in the last End.
Failing == {i \in 1..Len(held.hs) : held.hs[i].id \in last.args[1]}
Least(S) == CHOOSE x \in S : \A y \in S : x <= y

\* C8 as claimed: End on a multiEnder ends every held handle exactly once, in
\* order, whether or not the End of one of them fails.
C8_AttemptAll ==
  (last.op = "End" /\ HoldsTimers) =>
    trace = [i \in 1..Len(held.hs) |-> EndEv(held.hs[i].id)]

\* C8 amended: End on a multiEnder invokes End on the held handles in order,
\* each at most once, up to and including the first whose End panics; the
\* panic leaves End, and no later handle is ended.  With no failing handle all
\* are ended.
C8_StopsAtPanic ==
  (last.op = "End" /\ HoldsTimers) =>
    LET k == IF Failing = {} THEN Len(held.hs) ELSE Least(Failing)
    IN /\ trace = [i \in 1..k |-> EndEv(held.hs[i].id)]
       /\ panicked = (Failing # {})

C8_Witness ==
  /\ last.op = "End"
  /\ held = multiEnder(<<Timer(1), Timer(2), Timer(3)>>)
  /\ last.args[1] = {2}
  /\ trace = <<EndEv(1), EndEv(2)>>
  /\ panicked

\* The prefix list of the decorator the held one wraps.
Q == Elems(client.Client.Prefixes)
HoldsNested ==
  /\ held.type = "multiEnder"
  /\ \A i \in 1..Len(held.hs) :
       /\ held.hs[i].type = "multiEnder"
       /\ \A j \in 1..Len(held.hs[i].hs) : held.hs[i].hs[j].type = "timer"

\* C10: one operation with key k on PrefixClient(P, PrefixClient(Q, backend))
\* makes Len(P)*Len(Q) calls on the backend, with keys Q[j]+P[i]+k, i the
\* outer loop and j the inner, the other arguments as given; the handle of
\* BumpTime holds the timers in that order, and its End (none failing) ends
\* each once, in that order.
C10_Compose ==
  /\ (client.type = "prefixClient" /\ client.Client.type = "prefixClient"
      /\ last.op \in AllOps) =>
       /\ ~panicked
       /\ CallsAt(2) =
            [n \in 1..(Len(P) * Len(Q)) |->
               CallEv(2, last.op,
                      WithKey(Q[((n - 1) % Len(Q)) + 1] \o P[((n - 1) \div Len(Q)) + 1]
                              \o last.args[1]))]
       /\ (last.op = "BumpTime" /\ client.Client.Client = Backend) =>
            held = multiEnder([i \in 1..Len(P) |->
                     multiEnder([j \in 1..Len(Q) |-> Timer((i - 1) * Len(Q) + j)])])
  /\ (last.op = "End" /\ last.args[1] = {} /\ HoldsNested) =>
       /\ ~panicked
       /\ trace = [n \in 1..Cardinality(TimerIds(held)) |-> EndEv(n)]

C10_Witness ==
  /\ client.type = "prefixClient"
  /\ client.Client.type = "prefixClient"
  /\ P = <<"svc.", "env.prod.">>
  /\ Q = <<"env.prod.", "svc.">>
  /\ last.op = "End"
  /\ held = multiEnder(<<multiEnder(<<Timer(1), Timer(2)>>),
                         multiEnder(<<Timer(3), Timer(4)>>)>>)
  /\ trace = <<EndEv(1), EndEv(2), EndEv(3), EndEv(4)>>

\* Whether the hook of operation op is set on HookClient c.
HookSet(c, op) ==
  CASE op = "BumpAvg" -> c.BumpAvgHook
    [] op = "BumpSum" -> c.BumpSumHook
    [] op = "BumpHistogram" -> c.BumpHistogramHook
    [] op = "BumpTime" -> c.BumpTimeHook

\* C4: with a nil client no call to the four package functions, nor any End
\* on what BumpTime returned, reaches a client, a hook or a timer, and none
\* panics; BumpTime returns NoOpEnd.
C4_NilClient ==
  client = NilClient =>
    /\ trace = <<>>
    /\ ~panicked
    /\ held \in {NilEnder, NoOpEnd}
    /\ last.op = "BumpTime" => held = NoOpEnd

C4_Witness ==
  /\ client = NilClient
  /\ last.op = "End"
  /\ held = NoOpEnd
  /\ trace = <<>>

\* C5: with a client that is not nil each package function calls the
\* same-named method of that client exactly once, with the key, value and
\* tags it was given, and BumpTime returns the handle that call returned; on
\* a HookClient whose hook for the operation is set, that hook is invoked once
\* with the same arguments.
C5_Forward ==
  (client # NilClient /\ last.op \in AllOps) =>
    /\ CallsAt(0) = <<CallEv(0, last.op, last.args)>>
    /\ trace[1] = CallEv(0, last.op, last.args)
    /\ last.op = "BumpTime" => trace[Len(trace)] = RetEv(0, held)
    /\ (client.type = "HookClient" /\ HookSet(client, last.op)) =>
         HookCalls = <<HookEv(0, last.op, last.args)>>

C5_Witness ==
  /\ client = HookClient(TRUE, FALSE, FALSE, FALSE)
  /\ last.op = "BumpAvg"
  /\ last.args = <<"requests", 42, <<"region:us", "az:b">>>>
  /\ HookCalls = <<HookEv(0, "BumpAvg", <<"requests", 42, <<"region:us", "az:b">>>>)>>

\* C6: a call to an operation of a HookClient invokes the hook of that
\* operation, once and with the call's arguments, when it is set (BumpTime
\* returning the hook's result), and no hook at all when it is not (BumpTime
\* returning NoOpEnd); never the hook of another operation.
C6_Hooks ==
  (client.type = "HookClient" /\ last.op \in AllOps) =>
    /\ ~panicked
    /\ HookCalls = IF HookSet(client, last.op)
                   THEN <<HookEv(0, last.op, last.args)>> ELSE <<>>
    /\ last.op \in BumpOps =>
         trace = <<CallEv(0, last.op, last.args)>> \o HookCalls
    /\ last.op = "BumpTime" =>
         held = IF client.BumpTimeHook THEN Timer(1) ELSE NoOpEnd

C6_Witness ==
  /\ client = HookClient(TRUE, TRUE, TRUE, FALSE)
  /\ last.op = "BumpTime"
  /\ held = NoOpEnd
  /\ HookCalls = <<>>

\* The prefixes handed to PrefixClient when the held decorator was built.
S == supplied[client.Prefixes.arr]

\* C9 as claimed: every fan-out uses the prefixes supplied at construction,
\* whatever the caller has done since to the slice it passed.
C9_Immutable ==
  (client.type = "prefixClient" /\ last.op \in AllOps) =>
    CallsAt(1) = [i \in 1..Len(S) |-> CallEv(1, last.op, WithKey(S[i] \o last.args[1]))]

\* C9 amended: the decorator keeps the caller's slice, not a copy.  The number
\* of prefixes is the number supplied and no operation of the decorator
\* changes one, but a fan-out reads the backing array as it is when it runs:
\* at an index the caller has overwritten since, it uses the value written; at
\* every other index, the prefix supplied.
C9_SharedArray ==
  (client.type = "prefixClient" /\ last.op \in AllOps) =>
    CallsAt(1) =
      [i \in 1..Len(S) |->
         CallEv(1, last.op,
                WithKey((IF <<client.Prefixes.arr, i>> \in dirty THEN Scratch ELSE S[i])
                        \o last.args[1]))]

C9_Witness ==
  /\ client.type = "prefixClient"
  /\ S = <<"svc.", "env.prod.">>
  /\ dirty = {<<client.Prefixes.arr, 2>>}
  /\ last.op = "BumpAvg"
  /\ CallsAt(1) = <<CallEv(1, "BumpAvg", <<"svc.requests", 3, <<>>>>),
                    CallEv(1, "BumpAvg", <<"tmp.requests", 3, <<>>>>)>>

====
